---- MODULE Spec2Model ----
(***************************************************************************)
(* A model of exchangelib/recurrence.py: the enum vocabulary, the          *)
(* ExtraWeekdaysField normalisation, the recurrence pattern records with   *)
(* their field declarations and renderings, and the occurrence records.    *)
(*                                                                         *)
(* Python values are tagged records [t |-> <type name>, v |-> <payload>].  *)
(* A list is a reference: its payload is an address of the heap, and the   *)
(* heap maps each address to the elements of the list that lives there.    *)
(***************************************************************************)
EXTENDS Integers, Sequences, FiniteSets, TLC

VARIABLES
    field,  \* the ExtraWeekdaysField instance whose clean is called (its attributes)
    heap,   \* the list objects: heap[a] is the element sequence of the list at address a
    arg,    \* the value handed to the operation under observation
    pc,     \* position of the caller in the clean scenario
    res,    \* outcome of the first clean call
    res2,   \* outcome of the follow-up clean call
    obj,    \* the record (pattern or occurrence) under construction / assignment
    last,   \* what the last record operation was and whether it raised
    out     \* the last rendering produced by __str__

vars == <<field, heap, arg, pc, res, res2, obj, last, out>>

(***************************************************************************)
(* Bounds of the model.                                                    *)
(***************************************************************************)
\* longest sequence handed to ExtraWeekdaysField.clean in the clean scenario
MaxLen == 3
\* longest weekday list handed to a record field
MaxListLen == 2

(***************************************************************************)
(* Python values.                                                          *)
(***************************************************************************)
I(n) == [t |-> "int", v |-> n]
S(s) == [t |-> "str", v |-> s]
Ref(a) == [t |-> "list", v |-> a]
None == [t |-> "NoneType", v |-> 0]

\* isinstance(x, cls) for the two classes the module tests against
isinstance(x, cls) == x.t = cls

\* the elements of a Python tuple of strings, as a TLA+ set
Range(tup) == {tup[k] : k \in 1..Len(tup)}

\* `x in tup` for a tuple of strings: a non-string never equals a string
InTuple(x, tup) == x.t = "str" /\ x.v \in Range(tup)

\* tup.index(s): zero-based position of the first occurrence
index(tup, s) ==
    (CHOOSE k \in 1..Len(tup) : tup[k] = s /\ \A j \in 1..(k - 1) : tup[j] # s) - 1

\* a new list object holding elems: the heap after, and the new address
Alloc(h, elems) == [heap |-> Append(h, elems), addr |-> Len(h) + 1]

(***************************************************************************)
(* The enum vocabulary.                                                    *)
(***************************************************************************)
WEEK_NUMBERS == <<"First", "Second", "Third", "Fourth", "Last">>

MONTHS ==
    <<"January", "February", "March", "April", "May", "June", "July",
      "August", "September", "October", "November", "December">>

WEEKDAY_NAMES ==
    <<"Monday", "Tuesday", "Wednesday", "Thursday", "Friday", "Saturday", "Sunday">>

EXTRA_WEEKDAY_OPTIONS == <<"Day", "Weekday", "WeekendDay">>

WEEKDAYS == WEEKDAY_NAMES \o EXTRA_WEEKDAY_OPTIONS

(***************************************************************************)
(* Outcomes of a clean call.  by names the check that raised:              *)
(*   "single"     line 64, "list_str" line 74, "list_range" line 78,       *)
(*   "generic"    the inherited list validation,  "none" no error.         *)
(* handed is what was passed on to the inherited validation (if reached),  *)
(* ret the returned value, heap the heap after the call.                   *)
(***************************************************************************)
Raise(who, h) ==
    [raised |-> TRUE, by |-> who, handed |-> <<>>, reached |-> FALSE,
     ret |-> None, heap |-> h]

(***************************************************************************)
(* The inherited validation of the foundation layer, from the field        *)
(* contract of the specification: an element is an enum name (stored as    *)
(* its 1-based index) or an integer within min..max; everything else is    *)
(* rejected.  The validation works on its own list and returns it.         *)
(***************************************************************************)
EnumElementOk(self, v) ==
    \/ InTuple(v, self.enum)
    \/ v.t = "int" /\ self.min <= v.v /\ v.v <= self.max

EnumElementValue(self, v) ==
    IF v.t = "str" THEN I(index(self.enum, v.v) + 1) ELSE v

EnumListField_clean(self, value, h) ==
    LET elems == h[value.v] IN
    IF \E k \in 1..Len(elems) : ~EnumElementOk(self, elems[k])
    THEN [Raise("generic", h) EXCEPT !.handed = elems, !.reached = TRUE]
    ELSE LET a == Alloc(h, [k \in 1..Len(elems) |-> EnumElementValue(self, elems[k])])
         IN  [raised |-> FALSE, by |-> "none", handed |-> elems, reached |-> TRUE,
              ret |-> Ref(a.addr), heap |-> a.heap]

(***************************************************************************)
(* ExtraWeekdaysField                                                      *)
(***************************************************************************)
\* __init__: the enum is forced to WEEKDAYS; min/max are those EnumField derives
ExtraWeekdaysField(name) ==
    [name |-> name, kind |-> "ExtraWeekdaysField", enum |-> WEEKDAYS,
     value_cls |-> "int", min |-> 1, has_max |-> TRUE, max |-> Len(WEEKDAYS),
     has_default |-> FALSE, default |-> None, is_read_only |-> FALSE]

\* value = list(value): a private copy of the caller's sequence
ListCopy(h, value) == Alloc(h, h[value.v])

RECURSIVE CleanLoop_below7(_, _, _, _)
\* the variant whose range check excludes the upper end: 1 <= v < 7
CleanLoop_below7(self, value, h, i) ==
    IF i > Len(h[value.v])
    THEN [raised |-> FALSE, by |-> "none", handed |-> <<>>, reached |-> FALSE,
          ret |-> None, heap |-> h]
    ELSE LET v == h[value.v][i] IN
         IF isinstance(v, self.value_cls) /\ ~(1 <= v.v /\ v.v < 7)
         THEN Raise("list_range", h)
         ELSE CleanLoop_below7(self, value, h, i + 1)

RECURSIVE CleanLoop(_, _, _, _)
\* for i, v in enumerate(value): ...   (i is 1-based here)
CleanLoop(self, value, h, i) ==
    IF i > Len(h[value.v])
    THEN [raised |-> FALSE, by |-> "none", handed |-> <<>>, reached |-> FALSE,
          ret |-> None, heap |-> h]
    ELSE LET v == h[value.v][i] IN
         IF isinstance(value, "str")
         THEN IF ~InTuple(v, WEEKDAY_NAMES)
              THEN Raise("list_str", h)
              ELSE CleanLoop(self, value,
                             [h EXCEPT ![value.v][i] = I(index(self.enum, v.v) + 1)],
                             i + 1)
         ELSE IF isinstance(v, self.value_cls) /\ ~(1 <= v.v /\ v.v <= 7)
              THEN Raise("list_range", h)
              ELSE CleanLoop(self, value, h, i + 1)

\* the variant that normalises the caller's own list, element by element
ExtraWeekdaysField_clean_inplace(self, value, h) ==
    IF isinstance(value, "str")
    THEN IF ~InTuple(value, EXTRA_WEEKDAY_OPTIONS)
         THEN Raise("single", h)
         ELSE LET a == Alloc(h, <<I(index(self.enum, value.v) + 1)>>)
              IN  EnumListField_clean(self, Ref(a.addr), a.heap)
    ELSE IF isinstance(value, self.value_cls)
    THEN LET a == Alloc(h, <<value>>)
         IN  EnumListField_clean(self, Ref(a.addr), a.heap)
    ELSE LET conv == [k \in 1..Len(h[value.v]) |->
                        IF InTuple(h[value.v][k], WEEKDAY_NAMES)
                        THEN I(index(self.enum, h[value.v][k].v) + 1)
                        ELSE h[value.v][k]]
             h2 == [h EXCEPT ![value.v] = conv]
             loop == CleanLoop(self, value, h2, 1)
         IN  IF loop.raised THEN loop
             ELSE EnumListField_clean(self, value, loop.heap)

\* the variant whose single-string test is made against the whole vocabulary
ExtraWeekdaysField_clean_anyname(self, value, h) ==
    IF isinstance(value, "str")
    THEN IF ~InTuple(value, WEEKDAYS)
         THEN Raise("single", h)
         ELSE LET a == Alloc(h, <<I(index(self.enum, value.v) + 1)>>)
              IN  EnumListField_clean(self, Ref(a.addr), a.heap)
    ELSE IF isinstance(value, self.value_cls)
    THEN LET a == Alloc(h, <<value>>)
         IN  EnumListField_clean(self, Ref(a.addr), a.heap)
    ELSE LET c == ListCopy(h, value)
             loop == CleanLoop(self, Ref(c.addr), c.heap, 1)
         IN  IF loop.raised THEN loop
             ELSE EnumListField_clean(self, Ref(c.addr), loop.heap)

\* the variant whose per-element range check admits the category values
ExtraWeekdaysField_clean_wide(self, value, h) ==
    IF isinstance(value, "str")
    THEN IF ~InTuple(value, EXTRA_WEEKDAY_OPTIONS)
         THEN Raise("single", h)
         ELSE LET a == Alloc(h, <<I(index(self.enum, value.v) + 1)>>)
              IN  EnumListField_clean(self, Ref(a.addr), a.heap)
    ELSE IF isinstance(value, self.value_cls)
    THEN LET a == Alloc(h, <<value>>)
         IN  EnumListField_clean(self, Ref(a.addr), a.heap)
    ELSE LET c == ListCopy(h, value)
         IN  EnumListField_clean(self, Ref(c.addr), c.heap)

ExtraWeekdaysField_clean(self, value, h) ==
    IF isinstance(value, "str")
    THEN IF ~InTuple(value, EXTRA_WEEKDAY_OPTIONS)
         THEN Raise("single", h)
         ELSE LET a == Alloc(h, <<I(index(self.enum, value.v) + 1)>>)
              IN  EnumListField_clean(self, Ref(a.addr), a.heap)
    ELSE IF isinstance(value, self.value_cls)
    THEN LET a == Alloc(h, <<value>>)
         IN  EnumListField_clean(self, Ref(a.addr), a.heap)
    ELSE LET c == ListCopy(h, value)
             loop == CleanLoop(self, Ref(c.addr), c.heap, 1)
         IN  IF loop.raised THEN loop
             ELSE EnumListField_clean(self, Ref(c.addr), loop.heap)

(***************************************************************************)
(* Field kinds of the foundation layer, as the declarations of this module *)
(* use them.  A field is a record of its attributes.                       *)
(***************************************************************************)
IntegerField(name, min, max) ==
    [name |-> name, kind |-> "IntegerField", enum |-> <<>>,
     value_cls |-> "int", min |-> min, has_max |-> TRUE, max |-> max,
     has_default |-> FALSE, default |-> None, is_read_only |-> FALSE]

\* IntegerField(name, min=min): no upper bound
IntegerFieldMin(name, min) ==
    [IntegerField(name, min, 0) EXCEPT !.has_max = FALSE]

\* an enum value is stored as its 1-based index: 1..len(enum)
EnumField(name, enum) ==
    [name |-> name, kind |-> "EnumField", enum |-> enum,
     value_cls |-> "int", min |-> 1, has_max |-> TRUE, max |-> Len(enum),
     has_default |-> FALSE, default |-> None, is_read_only |-> FALSE]

EnumFieldDefault(name, enum, default) ==
    [EnumField(name, enum) EXCEPT !.has_default = TRUE, !.default = I(default)]

EnumListField(name, enum) ==
    [EnumField(name, enum) EXCEPT !.kind = "EnumListField"]

DateField(name) ==
    [name |-> name, kind |-> "DateField", enum |-> <<>>,
     value_cls |-> "date", min |-> 0, has_max |-> FALSE, max |-> 0,
     has_default |-> FALSE, default |-> None, is_read_only |-> FALSE]

DateTimeField(name) ==
    [DateField(name) EXCEPT !.kind = "DateTimeField", !.value_cls = "datetime"]

EWSElementField(name, value_cls, is_read_only) ==
    [DateField(name) EXCEPT !.kind = "EWSElementField", !.value_cls = value_cls,
                            !.is_read_only = is_read_only]

\* a value returned without touching any list
Return(value, h) ==
    [raised |-> FALSE, by |-> "none", handed |-> <<>>, reached |-> FALSE,
     ret |-> value, heap |-> h]

\* bounded integer: an integer within min..max (no max: min and above)
IntegerField_clean(self, value, h) ==
    IF /\ value.t = "int"
       /\ self.min <= value.v
       /\ self.has_max => value.v <= self.max
    THEN Return(value, h)
    ELSE Raise("generic", h)

\* single enumeration: a name of the vocabulary becomes its 1-based index
EnumField_clean(self, value, h) ==
    IF value.t = "str"
    THEN IF InTuple(value, self.enum)
         THEN IntegerField_clean(self, I(index(self.enum, value.v) + 1), h)
         ELSE Raise("generic", h)
    ELSE IntegerField_clean(self, value, h)

\* dates, date-times and element references: a value of the field's class
TypedField_clean(self, value, h) ==
    IF value.t = self.value_cls THEN Return(value, h) ELSE Raise("generic", h)

\* field.clean(value), by the kind of the field
Field_clean(self, value, h) ==
    CASE self.kind = "IntegerField" -> IntegerField_clean(self, value, h)
      [] self.kind = "EnumField" -> EnumField_clean(self, value, h)
      [] self.kind = "EnumListField" ->
            IF value.t = "list" THEN EnumListField_clean(self, value, h)
            ELSE Raise("generic", h)
      [] self.kind = "ExtraWeekdaysField" -> ExtraWeekdaysField_clean(self, value, h)
      [] OTHER -> TypedField_clean(self, value, h)

(***************************************************************************)
(* The FIELDS declarations of the record classes.                          *)
(***************************************************************************)
AbsoluteYearlyPattern_FIELDS ==
    << EnumField("month", MONTHS),
       IntegerField("day_of_month", 1, 31) >>

\* the declaration with the week_number vocabulary taken from the wrong tuple
RelativeYearlyPattern_FIELDS_weekdays ==
    << EnumField("month", MONTHS),
       EnumField("week_number", WEEKDAYS),
       ExtraWeekdaysField("weekdays") >>

RelativeYearlyPattern_FIELDS ==
    << EnumField("month", MONTHS),
       EnumField("week_number", WEEK_NUMBERS),
       ExtraWeekdaysField("weekdays") >>

AbsoluteMonthlyPattern_FIELDS ==
    << IntegerField("interval", 1, 99),
       IntegerField("day_of_month", 1, 31) >>

RelativeMonthlyPattern_FIELDS ==
    << IntegerField("interval", 1, 99),
       EnumField("week_number", WEEK_NUMBERS),
       ExtraWeekdaysField("weekdays") >>

WeeklyPattern_FIELDS ==
    << IntegerField("interval", 1, 99),
       EnumListField("weekdays", WEEKDAYS),
       EnumFieldDefault("first_day_of_week", WEEKDAYS, 1) >>

\* the declaration with the monthly/weekly interval bound, 1 -> 99
DailyPattern_FIELDS_max99 ==
    << IntegerField("interval", 1, 99) >>

DailyPattern_FIELDS ==
    << IntegerField("interval", 1, 999) >>

NoEndPattern_FIELDS ==
    << DateField("start") >>

EndDatePattern_FIELDS ==
    << DateField("start"),
       DateField("end") >>

NumberedPattern_FIELDS ==
    << DateField("start"),
       IntegerFieldMin("number", 0) >>

\* the declaration without the read-only flag on item
Occurrence_FIELDS_writable ==
    << EWSElementField("item", "ItemId", FALSE),
       DateTimeField("start"),
       DateTimeField("end"),
       DateTimeField("original_start") >>

Occurrence_FIELDS ==
    << EWSElementField("item", "ItemId", TRUE),
       DateTimeField("start"),
       DateTimeField("end"),
       DateTimeField("original_start") >>

DeletedOccurrence_FIELDS ==
    << DateTimeField("start") >>

FrequencyPatterns ==
    {"AbsoluteYearlyPattern", "RelativeYearlyPattern", "AbsoluteMonthlyPattern",
     "RelativeMonthlyPattern", "WeeklyPattern", "DailyPattern"}

RangePatterns == {"NoEndPattern", "EndDatePattern", "NumberedPattern"}

\* FirstOccurrence and LastOccurrence inherit the FIELDS of Occurrence
Occurrences == {"Occurrence", "FirstOccurrence", "LastOccurrence"}

FIELDS(cls) ==
    CASE cls = "AbsoluteYearlyPattern" -> AbsoluteYearlyPattern_FIELDS
      [] cls = "RelativeYearlyPattern" -> RelativeYearlyPattern_FIELDS
      [] cls = "AbsoluteMonthlyPattern" -> AbsoluteMonthlyPattern_FIELDS
      [] cls = "RelativeMonthlyPattern" -> RelativeMonthlyPattern_FIELDS
      [] cls = "WeeklyPattern" -> WeeklyPattern_FIELDS
      [] cls = "DailyPattern" -> DailyPattern_FIELDS
      [] cls = "NoEndPattern" -> NoEndPattern_FIELDS
      [] cls = "EndDatePattern" -> EndDatePattern_FIELDS
      [] cls = "NumberedPattern" -> NumberedPattern_FIELDS
      [] cls \in Occurrences -> Occurrence_FIELDS
      [] cls = "DeletedOccurrence" -> DeletedOccurrence_FIELDS

(***************************************************************************)
(* The clean scenario: a caller holds one value (a string, an integer, or  *)
(* a list living at address 1), calls field.clean(value) and then either   *)
(* calls it again with the same value or feeds the returned list back.     *)
(***************************************************************************)
\* what is stored of an outcome: everything but the heap, which is state
Outcome(r) ==
    [raised |-> r.raised, by |-> r.by, handed |-> r.handed, reached |-> r.reached,
     ret |-> r.ret]

NoOutcome ==
    [raised |-> FALSE, by |-> "not called", handed |-> <<>>, reached |-> FALSE,
     ret |-> None]

SeqsUpTo(E, n) == UNION {[1..k -> E] : k \in 0..n}

\* single values a caller may hand in: every vocabulary word, a non-word, 0..11
ScalarInputs ==
    {S(s) : s \in Range(WEEKDAYS) \cup {"Foo"}} \cup {I(n) : n \in 0..11}

\* elements of the sequences a caller may hand in
SeqElems ==
    {I(0), I(1), I(3), I(5), I(7), I(8), I(10), I(11),
     S("Monday"), S("Sunday"), S("Day"), S("Foo")}

NoObj == [cls |-> "none", f |-> <<>>]
NoOp == [op |-> "none", cls |-> "", field |-> "", raised |-> FALSE, omitted |-> {}]

InitClean ==
    /\ field = ExtraWeekdaysField("weekdays")
    /\ \/ arg \in ScalarInputs /\ heap = <<>>
       \/ arg = Ref(1) /\ heap \in {<<s>> : s \in SeqsUpTo(SeqElems, MaxLen)}
    /\ pc = "start"
    /\ res = NoOutcome
    /\ res2 = NoOutcome
    /\ obj = NoObj
    /\ last = NoOp
    /\ out = ""

\* r = field.clean(value)
Clean ==
    /\ pc = "start"
    /\ LET r == ExtraWeekdaysField_clean(field, arg, heap)
       IN  res' = Outcome(r) /\ heap' = r.heap
    /\ pc' = "cleaned"
    /\ UNCHANGED <<field, arg, res2, obj, last, out>>

\* the same call once more, with the same value
CleanAgain ==
    /\ pc = "cleaned"
    /\ LET r == ExtraWeekdaysField_clean(field, arg, heap)
       IN  res2' = Outcome(r) /\ heap' = r.heap
    /\ pc' = "again"
    /\ UNCHANGED <<field, arg, res, obj, last, out>>

\* field.clean(r): the returned list is handed to clean
CleanResult ==
    /\ pc = "cleaned"
    /\ ~res.raised
    /\ LET r == ExtraWeekdaysField_clean(field, res.ret, heap)
       IN  res2' = Outcome(r) /\ heap' = r.heap
    /\ pc' = "fed_back"
    /\ UNCHANGED <<field, arg, res, obj, last, out>>

NextClean == Clean \/ CleanAgain \/ CleanResult

SpecClean == InitClean /\ [][NextClean]_vars

(***************************************************************************)
(* Renderings (__str__) of the six frequency patterns.  self is the        *)
(* mapping from field names to the stored values.                          *)
(***************************************************************************)
\* tup[k] as Python evaluates it: zero-based, a negative k counts from the end
PyTupleGet(tup, k) ==
    IF 0 <= k /\ k < Len(tup) THEN tup[k + 1]
    ELSE IF -Len(tup) <= k /\ k < 0 THEN tup[Len(tup) + k + 1]
    ELSE "<IndexError>"

RECURSIVE Join(_, _)
\* sep.join(strs)
Join(sep, strs) ==
    IF Len(strs) = 0 THEN ""
    ELSE IF Len(strs) = 1 THEN strs[1]
    ELSE strs[1] \o sep \o Join(sep, Tail(strs))

\* WEEKDAYS[i - 1] for i in weekdays
WeekdayNames(weekdays) ==
    [k \in 1..Len(weekdays) |-> PyTupleGet(WEEKDAYS, weekdays[k].v - 1)]

AbsoluteYearlyPattern_str(self) ==
    "Occurs on the " \o ToString(self.day_of_month.v) \o ". day of "
        \o PyTupleGet(MONTHS, self.month.v - 1)

RelativeYearlyPattern_str(self) ==
    "Occurs on weekdays " \o Join(", ", WeekdayNames(self.weekdays))
        \o " in the " \o PyTupleGet(WEEK_NUMBERS, self.week_number.v - 1)
        \o " week of " \o PyTupleGet(MONTHS, self.month.v - 1)

AbsoluteMonthlyPattern_str(self) ==
    "Occurs on the " \o ToString(self.day_of_month.v) \o ". day of every "
        \o ToString(self.interval.v) \o ". month"

RelativeMonthlyPattern_str(self) ==
    "Occurs on weekdays " \o Join(", ", WeekdayNames(self.weekdays))
        \o " in the " \o PyTupleGet(WEEK_NUMBERS, self.week_number.v - 1)
        \o " week of every " \o ToString(self.interval.v) \o ". month"

\* the rendering that indexes WEEKDAYS with the stored 1-based values as they are
WeeklyPattern_str_unshifted(self) ==
    "Occurs on weekdays "
        \o Join(", ", [k \in 1..Len(self.weekdays) |->
                          PyTupleGet(WEEKDAYS, self.weekdays[k].v)])
        \o " of every " \o ToString(self.interval.v)
        \o ". week where the first day of the week is "
        \o PyTupleGet(WEEKDAYS, self.first_day_of_week.v)

WeeklyPattern_str(self) ==
    "Occurs on weekdays " \o Join(", ", WeekdayNames(self.weekdays))
        \o " of every " \o ToString(self.interval.v)
        \o ". week where the first day of the week is "
        \o PyTupleGet(WEEKDAYS, self.first_day_of_week.v - 1)

DailyPattern_str(self) ==
    "Occurs every " \o ToString(self.interval.v) \o ". day"

\* str(record), for the classes that define __str__
Str(o) ==
    CASE o.cls = "AbsoluteYearlyPattern" -> AbsoluteYearlyPattern_str(o.f)
      [] o.cls = "RelativeYearlyPattern" -> RelativeYearlyPattern_str(o.f)
      [] o.cls = "AbsoluteMonthlyPattern" -> AbsoluteMonthlyPattern_str(o.f)
      [] o.cls = "RelativeMonthlyPattern" -> RelativeMonthlyPattern_str(o.f)
      [] o.cls = "WeeklyPattern" -> WeeklyPattern_str(o.f)
      [] o.cls = "DailyPattern" -> DailyPattern_str(o.f)

(***************************************************************************)
(* Records: construction from named field values, and attribute            *)
(* assignment.  Every value passes through its field's clean; a list is    *)
(* given by its elements, [t |-> "list", v |-> <<e1, ...>>], and lives on  *)
(* a heap of its own for the duration of the call.                         *)
(***************************************************************************)
L(elems) == [t |-> "list", v |-> elems]
Omitted == [t |-> "omitted", v |-> 0]

\* field.clean(d) for a value given by its elements; the stored form of the result
CleanValue(f, d) ==
    LET r == IF d.t = "list" THEN Field_clean(f, Ref(1), <<d.v>>)
             ELSE Field_clean(f, d, <<>>)
    IN  [raised |-> r.raised,
         value |-> IF r.raised THEN None
                   ELSE IF r.ret.t = "list" THEN r.heap[r.ret.v]
                   ELSE r.ret]

\* record.name = d: a read-only field refuses, every other field cleans
Assign(f, d) ==
    IF f.is_read_only THEN [raised |-> TRUE, value |-> None] ELSE CleanValue(f, d)

\* values offered to an integer field: both sides of every declared bound
IntFieldInputs == {I(n) : n \in {-1, 0, 1, 2, 31, 32, 99, 100, 999, 1000}}

\* values offered to an enum field: indices around both ends, names, a non-name
EnumInputs(enum) ==
    {I(0), I(1), I(3), I(Len(enum)), I(Len(enum) + 1),
     S(enum[1]), S(enum[Len(enum)]), S("Foo")}

\* elements of the longer weekday lists offered to a record
ListCore == {I(1), I(3), S("Day")}

\* weekday lists offered to a record: the empty list, every one-element list,
\* and the lists of 2..MaxListLen elements over ListCore
ListInputs ==
    {L(e) : e \in SeqsUpTo(ScalarInputs, 1)}
        \cup {L(e) : e \in UNION {[1..k -> ListCore] : k \in 2..MaxListLen}}

DateInputs == {[t |-> "date", v |-> 1], [t |-> "date", v |-> 2], S("Foo")}
DateTimeInputs == {[t |-> "datetime", v |-> 1], [t |-> "datetime", v |-> 2], I(0)}
ItemInputs == {[t |-> "ItemId", v |-> "a"], [t |-> "ItemId", v |-> "b"]}

\* the integers offered where the other fields are varied in full
FewIntInputs == {I(n) : n \in {0, 2, 99, 100}}

FullInputs(f) ==
    CASE f.kind = "IntegerField" -> FewIntInputs
      [] f.kind = "EnumField" -> EnumInputs(f.enum)
      [] f.kind = "EnumListField" -> ListInputs
      [] f.kind = "ExtraWeekdaysField" -> ScalarInputs \cup ListInputs
      [] f.kind = "DateField" -> DateInputs
      [] f.kind = "DateTimeField" -> DateTimeInputs
      [] f.kind = "EWSElementField" -> ItemInputs

\* one valid value per field kind, for the scenario that varies the integers only
NarrowInputs(f) ==
    CASE f.kind = "IntegerField" -> IntFieldInputs
      [] f.kind = "EnumField" -> {I(1)}
      [] f.kind = "EnumListField" -> {L(<<I(1)>>)}
      [] f.kind = "ExtraWeekdaysField" -> {L(<<I(1)>>)}
      [] OTHER -> {[t |-> f.value_cls, v |-> 1]}

InputsFor(f, mode) == IF mode = "narrow" THEN NarrowInputs(f) ELSE FullInputs(f)

\* a field with a default may be left out of the constructor call
CtorInputs(f, mode) ==
    InputsFor(f, mode) \cup (IF f.has_default THEN {Omitted} ELSE {})

\* cls(**kw): every field is cleaned; the first field that raises aborts
Construct(cls, mode, rec) ==
    /\ obj = NoObj
    /\ LET fs == FIELDS(cls)
           In(k) == IF k <= Len(fs) THEN CtorInputs(fs[k], mode) ELSE {Omitted}
       IN  \E a \in In(1), b \in In(2), c \in In(3), d \in In(4) :
             LET kw == <<a, b, c, d>>
                 r == [k \in 1..Len(fs) |->
                         IF kw[k] = Omitted
                         THEN [raised |-> FALSE, value |-> fs[k].default]
                         ELSE CleanValue(fs[k], kw[k])]
                 bad == {k \in 1..Len(fs) : r[k].raised}
                 first == CHOOSE k \in bad : \A j \in bad : k <= j
                 pos(n) == CHOOSE k \in 1..Len(fs) : fs[k].name = n
             IN  /\ obj' = IF bad # {} THEN NoObj
                           ELSE [cls |-> cls,
                                 f |-> [n \in {fs[k].name : k \in 1..Len(fs)} |->
                                          r[pos(n)].value]]
                 /\ last' = [op |-> "init", cls |-> cls,
                             field |-> IF bad # {} THEN fs[first].name ELSE "",
                             raised |-> bad # {},
                             omitted |-> {fs[k].name : k \in {j \in 1..Len(fs) :
                                                                kw[j] = Omitted}}]
                 /\ arg' = IF rec THEN kw ELSE None
    /\ out' = ""
    /\ UNCHANGED <<field, heap, pc, res, res2>>

\* record.<k-th field> = d
SetAttr(k, mode, rec) ==
    /\ obj # NoObj
    /\ k <= Len(FIELDS(obj.cls))
    /\ LET f == FIELDS(obj.cls)[k]
       IN  \E d \in InputsFor(f, mode) :
             LET r == Assign(f, d)
             IN  /\ obj' = IF r.raised THEN obj
                           ELSE [obj EXCEPT !.f[f.name] = r.value]
                 /\ last' = [op |-> "setattr", cls |-> obj.cls, field |-> f.name,
                             raised |-> r.raised, omitted |-> {}]
                 /\ arg' = IF rec THEN d ELSE None
    /\ out' = ""
    /\ UNCHANGED <<field, heap, pc, res, res2>>

\* str(record)
Render ==
    /\ obj # NoObj
    /\ obj.cls \in FrequencyPatterns
    /\ out' = Str(obj)
    /\ last' = [op |-> "str", cls |-> obj.cls, field |-> "", raised |-> FALSE,
                omitted |-> {}]
    /\ UNCHANGED <<field, heap, arg, pc, res, res2, obj>>

InitRecord ==
    /\ field = ExtraWeekdaysField("weekdays")
    /\ heap = <<>>
    /\ arg = None
    /\ pc = "record"
    /\ res = NoOutcome
    /\ res2 = NoOutcome
    /\ obj = NoObj
    /\ last = NoOp
    /\ out = ""

Init == InitRecord

\* the frequency patterns: construction, assignment of any field, rendering
Next ==
    \/ \E cls \in FrequencyPatterns : Construct(cls, "full", FALSE)
    \/ \E k \in 1..3 : SetAttr(k, "full", FALSE)
    \/ Render

Spec == Init /\ [][Next]_vars

\* the classes with a bounded integer field, the integers varied and observed
BoundedClasses ==
    {"AbsoluteYearlyPattern", "AbsoluteMonthlyPattern", "RelativeMonthlyPattern",
     "WeeklyPattern", "DailyPattern", "NumberedPattern"}

NextBounds ==
    \/ \E cls \in BoundedClasses : Construct(cls, "narrow", TRUE)
    \/ \E k \in 1..3 : SetAttr(k, "narrow", TRUE)

SpecBounds == InitRecord /\ [][NextBounds]_vars

\* the occurrence records
NextOcc ==
    \/ \E cls \in Occurrences : Construct(cls, "full", TRUE)
    \/ \E k \in 1..4 : SetAttr(k, "full", TRUE)

SpecOcc == InitRecord /\ [][NextOcc]_vars

(***************************************************************************)
(* Properties of ExtraWeekdaysField.clean (checked under SpecClean).       *)
(***************************************************************************)
\* the elements of the list the caller handed in
ArgElems == heap[arg.v]

AllInts(s) == \A k \in 1..Len(s) : s[k].t = "int"

\* C1: a single string is accepted iff it is "Day", "Weekday" or "WeekendDay",
\* and is then normalised to [8], [9], [10] respectively; every other single
\* string (the seven weekday names included) raises and produces no value.
C1_SingleString ==
    (pc # "start" /\ arg.t = "str") =>
        /\ res.raised <=> arg.v \notin {"Day", "Weekday", "WeekendDay"}
        /\ res.raised => res.by = "single" /\ res.ret = None
        /\ arg.v = "Day" => heap[res.ret.v] = <<I(8)>>
        /\ arg.v = "Weekday" => heap[res.ret.v] = <<I(9)>>
        /\ arg.v = "WeekendDay" => heap[res.ret.v] = <<I(10)>>
        /\ arg.v \in Range(WEEKDAY_NAMES) => res.raised

C1_Witness ==
    /\ pc = "cleaned" /\ arg = S("WeekendDay")
    /\ ~res.raised /\ heap[res.ret.v] = <<I(10)>>

\* C2: a sequence of integers all in 1..7 passes the per-element check and is
\* handed on, same elements in the same order ([1, 3, 5] yields [1, 3, 5]); a
\* sequence with an integer outside 1..7 ([1, 8], [8]) raises.
C2_IntegerSequence ==
    (pc # "start" /\ arg.t = "list" /\ AllInts(ArgElems)) =>
        /\ IF \A k \in 1..Len(ArgElems) : ArgElems[k].v \in 1..7
           THEN ~res.raised /\ res.reached /\ res.handed = ArgElems
           ELSE res.raised /\ res.by = "list_range" /\ ~res.reached /\ res.ret = None
        /\ ArgElems = <<I(1), I(3), I(5)>> => heap[res.ret.v] = <<I(1), I(3), I(5)>>
        /\ ArgElems \in {<<I(1), I(8)>>, <<I(8)>>} => res.raised

C2_Witness ==
    /\ pc = "cleaned" /\ arg.t = "list" /\ ArgElems = <<I(1), I(3), I(5)>>
    /\ ~res.raised /\ res.handed = <<I(1), I(3), I(5)>>

\* C3 (the claim as stated): in a sequence with string elements, every weekday
\* name is replaced by its 1-based index by the field's own loop, and a string
\* that is no weekday name makes the field's own per-element check raise.
C3_StringElementsChecked ==
    (pc # "start" /\ arg.t = "list" /\ ~AllInts(ArgElems)) =>
        IF \E k \in 1..Len(ArgElems) :
              ArgElems[k].t = "str" /\ ~InTuple(ArgElems[k], WEEKDAY_NAMES)
        THEN res.raised /\ res.by \in {"list_str", "list_range"}
        ELSE ~res.raised =>
                \A k \in 1..Len(ArgElems) :
                    ArgElems[k].t = "str" =>
                        heap[res.ret.v][k] = I(index(WEEKDAY_NAMES, ArgElems[k].v) + 1)

\* C8: clean leaves every list that existed before the call, the caller's
\* included, as it was, and leaves the field's attributes alone; the same call
\* made again fails the same way or returns an equal list.
C8_NoSideEffects ==
    [][ /\ \A a \in 1..Len(heap) : heap'[a] = heap[a]
        /\ field' = field
        /\ pc' = "again" =>
              /\ res2'.raised = res.raised
              /\ res2'.by = res.by
              /\ ~res.raised => heap'[res2'.ret.v] = heap[res.ret.v] ]_vars

C8_Witness ==
    /\ pc = "again" /\ arg.t = "list" /\ ArgElems = <<S("Monday"), I(3)>>
    /\ ~res2.raised /\ heap[res2.ret.v] = <<I(1), I(3)>>

\* every element of the list the first call returned is a plain weekday 1..7
ResultPlain ==
    \A k \in 1..Len(heap[res.ret.v]) : heap[res.ret.v][k].v \in 1..7

\* C10 (the claim as stated): clean applied to the list it returned succeeds
\* and returns an equal list.
C10_Idempotent ==
    pc = "fed_back" => ~res2.raised /\ heap[res2.ret.v] = heap[res.ret.v]

\* C10 (amended): clean applied to the list it returned succeeds and returns
\* an equal list when that list holds only values in 1..7, and raises on the
\* range check when it holds a category value 8, 9 or 10.
C10_IdempotentPlain ==
    pc = "fed_back" =>
        IF ResultPlain
        THEN ~res2.raised /\ heap[res2.ret.v] = heap[res.ret.v]
        ELSE res2.raised /\ res2.by = "list_range"

C10_Witness ==
    /\ pc = "fed_back" /\ arg.t = "list" /\ ArgElems = <<S("Monday"), I(3)>>
    /\ heap[res.ret.v] = <<I(1), I(3)>>
    /\ ~res2.raised /\ heap[res2.ret.v] = <<I(1), I(3)>>

(***************************************************************************)
(* Properties of the records.                                              *)
(***************************************************************************)
\* C4 (the claim as stated; checked under Spec): the weekdays of a relative
\* yearly or monthly pattern is a list of integers in 1..10 in which 8, 9 or 10
\* occurs only when the list has exactly one element.
C4_CanonicalWeekdays ==
    obj.cls \in {"RelativeYearlyPattern", "RelativeMonthlyPattern"} =>
        \A k \in 1..Len(obj.f.weekdays) :
            /\ obj.f.weekdays[k].t = "int"
            /\ obj.f.weekdays[k].v \in 1..10
            /\ obj.f.weekdays[k].v \in 8..10 => Len(obj.f.weekdays) = 1

\* the declared range of each bounded integer field, as the claim states it
C5_InRange(cls, name, n) ==
    CASE name = "interval" /\ cls = "DailyPattern" -> 1 <= n /\ n <= 999
      [] name = "interval" /\ cls # "DailyPattern" -> 1 <= n /\ n <= 99
      [] name = "day_of_month" -> 1 <= n /\ n <= 31
      [] name = "number" -> n >= 0

\* the bounded integer fields of each class, with their position in FIELDS
C5_IntFields(cls) ==
    CASE cls = "AbsoluteYearlyPattern" -> {<<2, "day_of_month">>}
      [] cls = "AbsoluteMonthlyPattern" -> {<<1, "interval">>, <<2, "day_of_month">>}
      [] cls \in {"RelativeMonthlyPattern", "WeeklyPattern", "DailyPattern"} ->
            {<<1, "interval">>}
      [] cls = "NumberedPattern" -> {<<2, "number">>}

\* C5 (checked under SpecBounds): an interval is accepted iff it is in 1..99
\* (1..999 for DailyPattern), a day_of_month iff in 1..31, a number iff >= 0;
\* a rejected value raises at assignment and at construction, and leaves the
\* record as it was (no record, at construction).
C5_IntegerBounds ==
    /\ (last.op = "setattr" /\ last.field \in {"interval", "day_of_month", "number"}) =>
          /\ last.raised <=> ~C5_InRange(last.cls, last.field, arg.v)
          /\ ~last.raised => obj.f[last.field] = arg
    /\ last.op = "init" =>
          /\ last.raised <=>
                \E p \in C5_IntFields(last.cls) : ~C5_InRange(last.cls, p[2], arg[p[1]].v)
          /\ last.raised => obj = NoObj
          /\ ~last.raised =>
                \A p \in C5_IntFields(last.cls) : obj.f[p[2]] = arg[p[1]]

C5_Witness ==
    /\ last.op = "setattr" /\ last.cls = "DailyPattern" /\ last.field = "interval"
    /\ arg = I(999) /\ ~last.raised /\ obj.f.interval = I(999)

\* the Weekdays vocabulary of the specification, indexed from 1
C6_Weekdays ==
    <<"Monday", "Tuesday", "Wednesday", "Thursday", "Friday", "Saturday", "Sunday",
      "Day", "Weekday", "WeekendDay">>

RECURSIVE C6_Names(_)
\* the names of a weekdays list, in list order, separated by ", "
C6_Names(w) ==
    IF Len(w) = 0 THEN ""
    ELSE IF Len(w) = 1 THEN C6_Weekdays[w[1].v]
    ELSE C6_Names(SubSeq(w, 1, Len(w) - 1)) \o ", " \o C6_Weekdays[w[Len(w)].v]

\* C6 (checked under Spec): a WeeklyPattern renders as "Occurs on weekdays
\* <names> of every <interval>. week where the first day of the week is
\* <Weekdays[first_day_of_week]>", the first day being 1 (Monday) when it was
\* omitted at construction.
C6_WeeklyRendering ==
    /\ (last.op = "str" /\ obj.cls = "WeeklyPattern") =>
          /\ out = "Occurs on weekdays " \o C6_Names(obj.f.weekdays)
                      \o " of every " \o ToString(obj.f.interval.v)
                      \o ". week where the first day of the week is "
                      \o C6_Weekdays[obj.f.first_day_of_week.v]
          /\ ( /\ obj.f.interval = I(2)
               /\ obj.f.weekdays = <<I(1), I(3)>>
               /\ obj.f.first_day_of_week = I(1) ) =>
                out = "Occurs on weekdays Monday, Wednesday of every 2. week where the first day of the week is Monday"
    /\ ( /\ last.op = "init" /\ last.cls = "WeeklyPattern" /\ ~last.raised
         /\ "first_day_of_week" \in last.omitted ) =>
            obj.f.first_day_of_week = I(1)

C6_Witness ==
    /\ last.op = "str" /\ obj.cls = "WeeklyPattern"
    /\ obj.f.weekdays = <<I(1), I(3)>> /\ obj.f.interval = I(2)
    /\ out = "Occurs on weekdays Monday, Wednesday of every 2. week where the first day of the week is Monday"

\* C7 (checked under SpecOcc): no assignment changes item, an assignment to
\* item raises, and an assignment of a date-time to start, end or
\* original_start takes effect and leaves the other three fields as they were.
C7_ReadOnlyItem ==
    [][ (obj.cls \in Occurrences /\ last'.op = "setattr") =>
          /\ obj'.f.item = obj.f.item
          /\ last'.field = "item" => last'.raised /\ obj' = obj
          /\ \A n \in {"start", "end", "original_start"} :
                (last'.field = n /\ arg'.t = "datetime") =>
                    /\ ~last'.raised
                    /\ obj'.f[n] = arg'
                    /\ \A m \in (DOMAIN obj.f) \ {n} : obj'.f[m] = obj.f[m] ]_vars

C7_Witness ==
    /\ obj.cls \in Occurrences
    /\ last.op = "setattr" /\ last.field = "item" /\ last.raised
    /\ arg.t = "ItemId" /\ arg # obj.f.item

\* C9 (checked under Spec): in every frequency pattern the stored month is in
\* 1..12, week_number in 1..5, first_day_of_week in 1..10 and every weekday in
\* 1..10, so each zero-based lookup of the rendering hits the entry with that
\* 1-based position: none fails, none wraps around.
C9_IndexesInRange ==
    obj.cls \in FrequencyPatterns =>
        /\ "month" \in DOMAIN obj.f =>
              /\ obj.f.month.t = "int" /\ 1 <= obj.f.month.v /\ obj.f.month.v <= 12
              /\ PyTupleGet(MONTHS, obj.f.month.v - 1) = MONTHS[obj.f.month.v]
        /\ "week_number" \in DOMAIN obj.f =>
              /\ obj.f.week_number.t = "int"
              /\ 1 <= obj.f.week_number.v /\ obj.f.week_number.v <= 5
              /\ PyTupleGet(WEEK_NUMBERS, obj.f.week_number.v - 1)
                    = WEEK_NUMBERS[obj.f.week_number.v]
        /\ "first_day_of_week" \in DOMAIN obj.f =>
              /\ obj.f.first_day_of_week.t = "int"
              /\ 1 <= obj.f.first_day_of_week.v /\ obj.f.first_day_of_week.v <= 10
              /\ PyTupleGet(WEEKDAYS, obj.f.first_day_of_week.v - 1)
                    = WEEKDAYS[obj.f.first_day_of_week.v]
        /\ "weekdays" \in DOMAIN obj.f =>
              \A k \in 1..Len(obj.f.weekdays) :
                  /\ obj.f.weekdays[k].t = "int"
                  /\ 1 <= obj.f.weekdays[k].v /\ obj.f.weekdays[k].v <= 10
                  /\ PyTupleGet(WEEKDAYS, obj.f.weekdays[k].v - 1)
                        = WEEKDAYS[obj.f.weekdays[k].v]

C9_Witness ==
    /\ obj.cls = "RelativeYearlyPattern" /\ last.op = "str"
    /\ obj.f.month = I(12) /\ obj.f.week_number = I(5)
    /\ obj.f.weekdays = <<I(10)>>
    /\ out = "Occurs on weekdays WeekendDay in the Last week of December"

====
